---- MODULE Spec2Model ----
(***************************************************************************)
(* A model of egms_L3_web.py: the tile download (single tile and batch)    *)
(* and the CSV enrichment with location names.                             *)
(*                                                                         *)
(* Time is counted in ticks of half a second: sleep(3.0) is 6 ticks and    *)
(* sleep(0.5) is 1 tick.  A network call returns within the tick or takes  *)
(* a tick; a sleep takes the time asked for.                               *)
(***************************************************************************)
EXTENDS Integers, Sequences, FiniteSets, TLC

VARIABLES
    pc,               \* position of the script run
    op,               \* the button that started the run
    min_e, max_e, min_n, max_n,   \* the batch region (for a single tile: its coordinates)
    displacements,    \* the list of displacement types of the run
    total_tasks,      \* st.session_state.total_tasks
    task_count,       \* the batch loop's task counter
    e, n, di,         \* the loop variables (di: 1-based position in displacements)
    download_status,  \* st.session_state.download_status
    progress,         \* the value last given to progress_bar.progress, <<num, den>>
    prev_progress,    \* the value given before that one
    attempted,        \* the download_tile calls of the run, in order
    returned,         \* how many download_tile calls of the run have returned
    steps,            \* the steps taken so far for the current task
    written,          \* the files extracted by the latest download_tile call
    dir_exists,       \* whether Point_downloads exists
    now,              \* ticks since the run began
    calls,            \* per service: number of calls and the times of the first,
                      \* the previous and the latest call
    transformer,      \* the cached result of init_transformer
    input_file,       \* the input file's lines (NoFile when it does not exist)
    output_file,      \* the output file's lines (NoFile when it does not exist)
    names_dir_exists, \* whether Point_locations exists
    rows,             \* the data rows read from the input file
    idx,              \* [pid, easting, northing]: the column indices found
    i,                \* the enrichment loop's row index (0-based as in the code)
    location,         \* the location found for the current row
    geo_response,     \* what geolocator.reverse did for the current row
    geocoder_calls,   \* geolocator.reverse calls of the run
    transform_ok,     \* rows of the run for which convert_coordinates returned coordinates
    result            \* what enrich_dataset_with_locations returned

vars == << pc, op, min_e, max_e, min_n, max_n, displacements, total_tasks,
           task_count, e, n, di, download_status, progress, prev_progress,
           attempted, returned, steps, written, dir_exists, now, calls,
           transformer, input_file, output_file, names_dir_exists, rows,
           idx, i, location, geo_response, geocoder_calls, transform_ok,
           result >>

enrichVars == << transformer, input_file, output_file, names_dir_exists, rows,
                 idx, i, location, geo_response, geocoder_calls,
                 transform_ok, result >>

----------------------------------------------------------------------------
(* Bounds *)

MaxE == 11          \* east coordinates range over MIN_COORD..MaxE
MaxN == 10          \* north coordinates range over MIN_COORD..MaxN
MaxRows == 2        \* data rows of an input file

(* Program constants *)

MIN_COORD == 9      \* min_value of the coordinate inputs
DELAY == 6          \* DELAY = 3.0 s, in ticks
GEO_DELAY == 1      \* sleep(0.5), in ticks

\* A file: whether it exists, and its lines.
NoFile == [ exists |-> FALSE, lines |-> << >> ]
File(lines) == [ exists |-> TRUE, lines |-> lines ]
None == "None"

----------------------------------------------------------------------------
(* Helpers *)

Services == { "archive", "geocoder" }

\* The ticks a network call may last.
Lags == { 0, 1 }

NoCalls == [ n |-> 0, first |-> 0, prev |-> 0, last |-> 0 ]

\* The record of a service after a call made at time t.
Called(c, t) ==
    [ n     |-> c.n + 1,
      first |-> IF c.n = 0 THEN t ELSE c.first,
      prev  |-> c.last,
      last  |-> t ]

\* displacements as lines 306-309 (and 257-260) choose it.
ChooseDisplacements(disp_choice) ==
    IF disp_choice = "Both" THEN << "E", "U" >> ELSE << disp_choice >>

\* A mutant of TotalTasks: the upper ends of the ranges are left out.
TotalTasks_exclusive(mine, maxe, minn, maxn, disps) ==
    (maxe - mine) * (maxn - minn) * Len(disps)

\* total_tasks as line 311 computes it.
TotalTasks(mine, maxe, minn, maxn, disps) ==
    (maxe - mine + 1) * (maxn - minn + 1) * Len(disps)

\* A mutant of BatchProgress: the progress as a percentage.
BatchProgress_percent(count, total) == << 100 * count, total >>

\* A mutant of BatchProgress: the tasks completed, not the task begun.
BatchProgress_completed(count, total) == << count - 1, total >>

\* The progress value of line 322.
BatchProgress(count, total) == << count, total >>

\* The progress value of line 266.
SingleProgress(k, disps) == << k, Len(disps) >>

----------------------------------------------------------------------------
(* download_tile *)

OtherD(d) == IF d = "E" THEN "U" ELSE "E"

\* A name in an archive: "tile" is the EGMS_L3_E{e}N{n}_100km_{d}_{year}_1
\* fragment the name contains, "ext" its extension, "dir" its folder.
Name(te, tn, td, ext, dir) ==
    [ tile |-> << te, tn, td >>, ext |-> ext, dir |-> dir ]

\* The name lists of the archives the service may return for a tile.
Archives(te, tn, td) ==
    LET csv == Name(te, tn, td, "csv", "")
        sub == Name(te, tn, td, "csv", "sub/")
        xml == Name(te, tn, td, "xml", "")
        other == Name(te, tn, OtherD(td), "csv", "")
    IN  { << >>, << csv >>, << xml, csv >>, << sub, csv >>, << csv, sub >>,
          << other, xml >>, << other, sub, csv >> }

SeqsUpTo(S, k) == UNION { [ 1..m -> S ] : m \in 0..k }

\* What z.extract may do with the entry it is given: write the whole file,
\* raise before the target file is opened (an entry that cannot be opened, a
\* target that cannot be created), or raise while the data is copied (a bad
\* CRC, a full disk), which leaves the target file behind.
Extractions == { "ok", "open_raises", "copy_raises" }

\* What curl_requests.get may do: raise, or return a status code with a body
\* that is a zip archive or is not one.  "extract" is what z.extract does if
\* it is called.
Responses(te, tn, td) ==
    { [ kind |-> "raise", status |-> 0, zip |-> FALSE, names |-> << >>,
        extract |-> "ok" ] }
    \cup { [ kind |-> "response", status |-> s, zip |-> FALSE, names |-> << >>,
            extract |-> "ok" ] : s \in { 200, 404 } }
    \cup { [ kind |-> "response", status |-> 200, zip |-> TRUE, names |-> ns,
            extract |-> x ] : ns \in Archives(te, tn, td), x \in Extractions }

\* name.endswith(".csv") and filename_prefix in name
Matches(name, te, tn, td) ==
    name.ext = "csv" /\ name.tile = << te, tn, td >>

\* The first matching name of the archive, 0 if there is none (lines 83-87).
FirstMatch(names, te, tn, td) ==
    IF \E k \in 1..Len(names) : Matches(names[k], te, tn, td)
    THEN CHOOSE k \in 1..Len(names) :
            /\ Matches(names[k], te, tn, td)
            /\ \A j \in 1..(k - 1) : ~Matches(names[j], te, tn, td)
    ELSE 0

Status(kind, te, tn, td, name) ==
    [ kind |-> kind, tile |-> << te, tn >>, d |-> td, name |-> name ]

NoStatus == [ kind |-> "", tile |-> << 0, 0 >>, d |-> "", name |-> None ]

\* A mutant of download_tile: the try of lines 70-94 catches nothing.
download_tile_uncaught(te, tn, td, resp) ==
    IF resp.kind = "raise" \/ (resp.status = 200 /\ ~resp.zip)
    THEN [ raised |-> TRUE, ret |-> FALSE, mkdir |-> resp.kind # "raise",
           status |-> Status("Response", te, tn, td, None), written |-> {} ]
    ELSE IF resp.status # 200
    THEN [ raised |-> FALSE, ret |-> FALSE, mkdir |-> FALSE,
           status |-> Status("Failed", te, tn, td, None), written |-> {} ]
    ELSE LET k == FirstMatch(resp.names, te, tn, td) IN
         IF k # 0 /\ resp.extract # "ok"
         THEN [ raised |-> TRUE, ret |-> FALSE, mkdir |-> TRUE,
                status |-> Status("Response", te, tn, td, None),
                written |-> IF resp.extract = "copy_raises"
                            THEN { resp.names[k] } ELSE {} ]
         ELSE IF k # 0
         THEN [ raised |-> FALSE, ret |-> TRUE, mkdir |-> TRUE,
                status |-> Status("Extracted", te, tn, td, resp.names[k]),
                written |-> { resp.names[k] } ]
         ELSE [ raised |-> FALSE, ret |-> FALSE, mkdir |-> TRUE,
                status |-> Status("NoMatch", te, tn, td, None), written |-> {} ]

\* download_tile(e, n, d) on the response resp: what it returns, the status it
\* leaves, the files it extracts, whether it reached os.makedirs, and whether
\* an exception leaves the function.
download_tile(te, tn, td, resp) ==
    IF resp.kind = "raise"
    THEN \* curl_requests.get raised: line 93
         [ raised |-> FALSE, ret |-> FALSE, mkdir |-> FALSE,
           status |-> Status("Error", te, tn, td, None), written |-> {} ]
    ELSE IF resp.status # 200
    THEN \* lines 74-76
         [ raised |-> FALSE, ret |-> FALSE, mkdir |-> FALSE,
           status |-> Status("Failed", te, tn, td, None), written |-> {} ]
    ELSE IF ~resp.zip
    THEN \* zipfile.ZipFile raises BadZipFile: line 93
         [ raised |-> FALSE, ret |-> FALSE, mkdir |-> TRUE,
           status |-> Status("Error", te, tn, td, None), written |-> {} ]
    ELSE LET k == FirstMatch(resp.names, te, tn, td) IN
         IF k # 0 /\ resp.extract # "ok"
         THEN \* z.extract raises at line 85: line 93.  The file is there if
              \* the target had been opened.
              [ raised |-> FALSE, ret |-> FALSE, mkdir |-> TRUE,
                status |-> Status("Error", te, tn, td, None),
                written |-> IF resp.extract = "copy_raises"
                            THEN { resp.names[k] } ELSE {} ]
         ELSE IF k # 0
         THEN \* lines 85-87
              [ raised |-> FALSE, ret |-> TRUE, mkdir |-> TRUE,
                status |-> Status("Extracted", te, tn, td, resp.names[k]),
                written |-> { resp.names[k] } ]
         ELSE \* lines 89-90
              [ raised |-> FALSE, ret |-> FALSE, mkdir |-> TRUE,
                status |-> Status("NoMatch", te, tn, td, None), written |-> {} ]

----------------------------------------------------------------------------
(* The initial state *)

\* Lines 28-35 and an empty working directory, before any button is pressed.
Init ==
    /\ pc = "idle"
    /\ op = "none"
    /\ progress = << 0, 1 >>
    /\ prev_progress = << 0, 1 >>
    /\ now = 0
    /\ calls = [ s \in Services |-> NoCalls ]
    /\ min_e = 0 /\ max_e = 0 /\ min_n = 0 /\ max_n = 0
    /\ displacements = << >>
    /\ total_tasks = 0
    /\ task_count = 0
    /\ e = 0 /\ n = 0 /\ di = 0
    /\ download_status = NoStatus
    /\ attempted = << >>
    /\ returned = 0
    /\ steps = << >>
    /\ written = {}
    /\ dir_exists = FALSE
    /\ transformer = "uncached"
    /\ input_file = NoFile
    /\ output_file = NoFile
    /\ names_dir_exists = FALSE
    /\ rows = << >>
    /\ idx = << 0, 0, 0 >>
    /\ i = 0
    /\ location = None
    /\ geo_response = None
    /\ geocoder_calls = 0
    /\ transform_ok = 0
    /\ result = None

\* progress_bar.progress(v)
Emit(v) ==
    /\ progress' = v
    /\ prev_progress' = progress

----------------------------------------------------------------------------
(* Batch download: lines 305-330 *)

\* The button of line 305, and lines 306-317.
StartBatch ==
    /\ pc = "idle"
    /\ \E mine \in MIN_COORD..MaxE, maxe \in MIN_COORD..MaxE,
          minn \in MIN_COORD..MaxN, maxn \in MIN_COORD..MaxN,
          disp_choice \in { "E", "U", "Both" } :
          /\ min_e' = mine /\ max_e' = maxe
          /\ min_n' = minn /\ max_n' = maxn
          /\ displacements' = ChooseDisplacements(disp_choice)
          /\ total_tasks' = TotalTasks(mine, maxe, minn, maxn, displacements')
          /\ e' = mine /\ n' = minn /\ di' = 1
    /\ op' = "batch"
    /\ task_count' = 0
    /\ Emit(<< 0, 1 >>)
    /\ pc' = "batch_loop"
    /\ UNCHANGED << download_status, attempted, returned, steps, written,
                    dir_exists, now, calls, enrichVars >>

\* The three for statements of lines 318-320, and lines 321-324 of the body.
\* After the last e, line 330.
BatchLoop ==
    /\ pc = "batch_loop"
    /\ IF e > max_e
       THEN /\ Emit(<< 1, 1 >>)
            /\ pc' = "done"
            /\ UNCHANGED << e, n, di, task_count, steps >>
       ELSE IF n > max_n
       THEN /\ e' = e + 1 /\ n' = min_n /\ di' = 1
            /\ UNCHANGED << pc, task_count, steps, progress, prev_progress >>
       ELSE IF di > Len(displacements)
       THEN /\ n' = n + 1 /\ di' = 1
            /\ UNCHANGED << pc, e, task_count, steps, progress, prev_progress >>
       ELSE /\ task_count' = task_count + 1
            /\ Emit(BatchProgress(task_count', total_tasks))
            /\ steps' = << "progress" >>
            /\ pc' = "batch_fetch"
            /\ UNCHANGED << e, n, di >>
    /\ UNCHANGED << op, min_e, max_e, min_n, max_n, displacements, total_tasks,
                    download_status, attempted, returned, written, dir_exists,
                    now, calls, enrichVars >>

\* The tiles a run may ask for.
Tiles == (MIN_COORD..MaxE) \X (MIN_COORD..MaxN) \X { "E", "U" }

\* What a download_tile call may do for each tile, over the responses the
\* service may give (a table: @@ has TLC compute the function once).
Outcomes ==
    [ t \in Tiles |->
        { download_tile(t[1], t[2], t[3], resp)
            : resp \in Responses(t[1], t[2], t[3]) } ] @@ << >>

\* A download_tile call made by a loop: the call, its effects, and where the
\* run goes next (an exception leaving download_tile ends the run).
Fetch(next) ==
    \E r \in Outcomes[<< e, n, displacements[di] >>], lag \in Lags :
        /\ attempted' = Append(attempted, << e, n, displacements[di] >>)
        /\ calls' = [ calls EXCEPT !["archive"] = Called(@, now) ]
        /\ now' = now + lag
        /\ download_status' = r.status
        /\ written' = r.written
        /\ dir_exists' = (dir_exists \/ r.mkdir)
        /\ IF r.raised
           THEN /\ pc' = "crashed"
                /\ UNCHANGED << returned, steps >>
           ELSE /\ pc' = next
                /\ returned' = returned + 1
                /\ steps' = Append(steps, "fetch")

\* A mutant of sleep: it returns at once.
sleep_returns_at_once(ticks) ==
    now' = now

\* sleep(seconds): the time asked for passes (a sleep overshoots by far less
\* than a tick).
sleep(ticks) ==
    now' = now + ticks

\* sleep(DELAY) after a download_tile call
Sleep(next) ==
    /\ sleep(DELAY)
    /\ steps' = Append(steps, "wait")
    /\ pc' = next

\* Lines 326-327.
BatchFetch ==
    /\ pc = "batch_fetch"
    /\ Fetch("batch_sleep")
    /\ UNCHANGED << op, min_e, max_e, min_n, max_n, displacements, total_tasks,
                    task_count, e, n, di, progress, prev_progress, enrichVars >>

\* Line 328, and the step of the innermost for.
BatchSleep ==
    /\ pc = "batch_sleep"
    /\ Sleep("batch_loop")
    /\ di' = di + 1
    /\ UNCHANGED << op, min_e, max_e, min_n, max_n, displacements, total_tasks,
                    task_count, e, n, download_status, progress, prev_progress,
                    attempted, returned, written, dir_exists, calls, enrichVars >>

----------------------------------------------------------------------------
(* Single tile download: lines 256-275 *)

\* The button of line 256, and lines 257-263.
StartSingle ==
    /\ pc = "idle"
    /\ \E e_coord \in MIN_COORD..MaxE, n_coord \in MIN_COORD..MaxN,
          disp_choice \in { "E", "U", "Both" } :
          /\ min_e' = e_coord /\ max_e' = e_coord
          /\ min_n' = n_coord /\ max_n' = n_coord
          /\ e' = e_coord /\ n' = n_coord /\ di' = 1
          /\ displacements' = ChooseDisplacements(disp_choice)
    /\ op' = "single"
    /\ Emit(<< 0, 1 >>)
    /\ pc' = "single_loop"
    /\ UNCHANGED << total_tasks, task_count, download_status, attempted,
                    returned, steps, written, dir_exists, now, calls,
                    enrichVars >>

\* The for of line 265 and lines 266-268; after the last d, line 275.
SingleLoop ==
    /\ pc = "single_loop"
    /\ IF di > Len(displacements)
       THEN /\ Emit(<< 1, 1 >>)
            /\ pc' = "done"
            /\ UNCHANGED steps
       ELSE /\ Emit(SingleProgress(di - 1, displacements))
            /\ steps' = << "progress" >>
            /\ pc' = "single_fetch"
    /\ UNCHANGED << op, min_e, max_e, min_n, max_n, displacements, total_tasks,
                    task_count, e, n, di, download_status, attempted, returned,
                    written, dir_exists, now, calls, enrichVars >>

\* Line 270.
SingleFetch ==
    /\ pc = "single_fetch"
    /\ Fetch("single_sleep")
    /\ UNCHANGED << op, min_e, max_e, min_n, max_n, displacements, total_tasks,
                    task_count, e, n, di, progress, prev_progress, enrichVars >>

\* Lines 271-273, and the step of the for.
SingleSleep ==
    /\ pc = "single_sleep"
    /\ Sleep("single_loop")
    /\ di' = di + 1
    /\ UNCHANGED << op, min_e, max_e, min_n, max_n, displacements, total_tasks,
                    task_count, e, n, download_status, progress, prev_progress,
                    attempted, returned, written, dir_exists, calls, enrichVars >>


----------------------------------------------------------------------------
(* CSV files *)

\* Column names, and str.lower on them.
Lower(col) ==
    CASE col = "PID" -> "pid"
      [] col = "Easting" -> "easting"
      [] col = "Northing" -> "northing"
      [] OTHER -> col

Headers ==
    { << "pid", "easting", "northing" >>,
      << "PID", "Easting", "Northing", "extra" >>,
      << "extra", "northing", "easting", "pid" >>,
      << "id", "easting", "northing" >>,
      << "pid", "Easting" >> }

\* Data rows as csv.reader yields them: a blank line is the empty row, and a
\* row holds as many cells as its line has fields.
DataRows ==
    { << "A1", "4321000.0", "3210000.0", "ignored" >>,
      << "B2", "abc", "3210000.0" >>,
      << "C3", "4321000.0" >>,
      << >> }

\* The cells float() accepts.
IsNumeric(cell) == cell \in { "4321000.0", "3210000.0" }

\* The input files: no file, an empty file, or a header and up to MaxRows rows.
InputFiles ==
    { NoFile, File(<< >>) }
    \cup { File(<< h >> \o rs) : h \in Headers, rs \in SeqsUpTo(DataRows, MaxRows) }

\* name in header_lower
HasColumn(header, name) ==
    \E k \in 1..Len(header) : Lower(header[k]) = name

\* header_lower.index(name), 0-based, when name is in header_lower.
ColumnIndex(header, name) ==
    (CHOOSE k \in 1..Len(header) :
        /\ Lower(header[k]) = name
        /\ \A j \in 1..(k - 1) : Lower(header[j]) # name) - 1

\* row[k] is defined (k is a 0-based index, never negative here).
HasCell(row, k) == k < Len(row)

\* row[k]
Cell(row, k) == row[k + 1]

OUT_HEADER == << "point_id", "easting", "northing", "location" >>

----------------------------------------------------------------------------
(* convert_coordinates *)

\* init_transformer under st.cache_resource: the first call fixes the value.
InitTransformerResults == { "transformer", None }

\* convert_coordinates(easting, northing, transformer): << lat, lon >>, both
\* None when there is no transformer or float() or transform raises.
convert_coordinates(easting, northing, tr, transform_raises) ==
    IF tr = None
    THEN << None, None >>
    ELSE IF ~IsNumeric(easting) \/ ~IsNumeric(northing) \/ transform_raises
    THEN << None, None >>
    ELSE << "lat", "lon" >>

----------------------------------------------------------------------------
(* get_location_name *)

\* What geolocator.reverse may do: raise, return None, or return a Location
\* with its raw address fields and its formatted address.
GeocoderResponses ==
    { [ kind |-> "raise", raw |-> << >>, address |-> "" ],
      [ kind |-> "none", raw |-> << >>, address |-> "" ] }
    \cup
    { [ kind |-> "location", raw |-> r, address |-> a ] :
        r \in { [ k \in { "city", "town", "country" } |->
                    CASE k = "city" -> "Lyon" [] k = "town" -> "Tain"
                      [] OTHER -> "France" ],
                [ k \in { "town", "village", "country" } |->
                    CASE k = "town" -> "Tain" [] k = "village" -> "Vers"
                      [] OTHER -> "France" ],
                [ k \in { "village", "country" } |->
                    IF k = "village" THEN "Vers" ELSE "France" ],
                [ k \in { "city", "town", "country" } |->
                    CASE k = "city" -> "" [] k = "town" -> "Tain"
                      [] OTHER -> "France" ],
                [ k \in { "city" } |-> "Lyon" ],
                [ k \in { "country" } |-> "France" ],
                [ k \in {} |-> "" ] },
        a \in { "1 Rue X, Lyon, France", "" } }

\* dict.get(key, default)
Get(d, key, default) == IF key \in DOMAIN d THEN d[key] ELSE default

\* f"{city}, {country}"
Format(city, country) ==
    CASE city = "Lyon" /\ country = "France" -> "Lyon, France"
      [] city = "Tain" /\ country = "France" -> "Tain, France"
      [] city = "Vers" /\ country = "France" -> "Vers, France"

\* A mutant of get_location_name: no check of the coordinates (lines 98-99).
get_location_name_unguarded(latitude, longitude, resp) ==
    IF resp.kind = "raise"
    THEN [ called |-> TRUE, raised |-> FALSE, value |-> "Geocoding error" ]
    ELSE IF resp.kind = "none"
    THEN [ called |-> TRUE, raised |-> FALSE, value |-> "Unknown location" ]
    ELSE LET city == Get(resp.raw, "city",
                         Get(resp.raw, "town", Get(resp.raw, "village", "")))
             country == Get(resp.raw, "country", "")
         IN  [ called |-> TRUE, raised |-> FALSE,
               value |-> IF city # "" /\ country # ""
                         THEN Format(city, country) ELSE resp.address ]

\* get_location_name(latitude, longitude) when geolocator.reverse answers
\* resp: the value returned, whether geolocator.reverse was called, and
\* whether an exception leaves the function.
get_location_name(latitude, longitude, resp) ==
    IF latitude = None \/ longitude = None
    THEN \* lines 98-99
         [ called |-> FALSE, raised |-> FALSE, value |-> "Unknown location" ]
    ELSE IF resp.kind = "raise"
    THEN \* lines 112-114
         [ called |-> TRUE, raised |-> FALSE, value |-> "Geocoding error" ]
    ELSE IF resp.kind = "none"
    THEN \* line 111
         [ called |-> TRUE, raised |-> FALSE, value |-> "Unknown location" ]
    ELSE \* lines 105-110
         LET city == Get(resp.raw, "city",
                         Get(resp.raw, "town", Get(resp.raw, "village", "")))
             country == Get(resp.raw, "country", "")
         IN  [ called |-> TRUE, raised |-> FALSE,
               value |-> IF city # "" /\ country # ""
                         THEN Format(city, country) ELSE resp.address ]

----------------------------------------------------------------------------
(* enrich_dataset_with_locations: lines 127-209, called from line 376 *)

\* The except clause of lines 205-209: the with statement has closed both
\* files, and the function returns None.
Abort ==
    /\ pc' = "done"
    /\ result' = None

\* The button of line 373, line 374, and lines 129-176.
StartEnrich ==
    /\ pc = "idle"
    /\ op' = "enrich"
    /\ Emit(<< 0, 1 >>)
    /\ \E file \in InputFiles, tr \in InitTransformerResults :
        /\ input_file' = file
        /\ IF file = NoFile
           THEN \* lines 129-131
                /\ pc' = "done"
                /\ result' = None
                /\ UNCHANGED << transformer, output_file, names_dir_exists,
                                rows, idx >>
           ELSE /\ names_dir_exists' = TRUE
                /\ transformer' = IF transformer = "uncached" THEN tr
                                  ELSE transformer
                /\ IF file.lines = << >>
                   THEN \* line 146 opens both files; next(reader) raises
                        \* StopIteration
                        /\ output_file' = File(<< >>)
                        /\ Abort
                        /\ UNCHANGED << rows, idx >>
                   ELSE LET header == file.lines[1] IN
                        IF ~HasColumn(header, "pid")
                           \/ ~HasColumn(header, "easting")
                           \/ ~HasColumn(header, "northing")
                        THEN \* line 146 opens both files; lines 161-163
                             /\ output_file' = File(<< >>)
                             /\ pc' = "done"
                             /\ result' = None
                             /\ UNCHANGED << rows, idx >>
                        ELSE \* lines 146-176
                             /\ output_file' = File(<< OUT_HEADER >>)
                             /\ rows' = SubSeq(file.lines, 2, Len(file.lines))
                             /\ idx' = << ColumnIndex(header, "pid"),
                                          ColumnIndex(header, "easting"),
                                          ColumnIndex(header, "northing") >>
                             /\ pc' = "enrich_row"
                             /\ UNCHANGED result
    /\ i' = 0
    /\ UNCHANGED << min_e, max_e, min_n, max_n, displacements, total_tasks,
                    task_count, e, n, di, download_status, attempted, returned,
                    steps, written, dir_exists, now, calls, location,
                    geo_response, geocoder_calls, transform_ok >>

\* The for of line 179 and lines 180-187; after the last row, lines 202-203.
EnrichRow ==
    /\ pc = "enrich_row"
    /\ IF i >= Len(rows)
       THEN /\ pc' = "done"
            /\ result' = "output_file"
            /\ UNCHANGED << location, geo_response, geocoder_calls,
                            transform_ok, now, calls >>
       ELSE LET row == rows[i + 1] IN
            IF ~HasCell(row, idx[2]) \/ ~HasCell(row, idx[3])
            THEN \* row[easting_idx] or row[northing_idx] raises IndexError
                 /\ Abort
                 /\ UNCHANGED << location, geo_response, geocoder_calls,
                                 transform_ok, now, calls >>
            ELSE \E transform_raises \in BOOLEAN,
                    resp \in GeocoderResponses, lag \in Lags :
                    LET ll == convert_coordinates(Cell(row, idx[2]),
                                  Cell(row, idx[3]), transformer,
                                  transform_raises)
                        r == get_location_name(ll[1], ll[2], resp)
                    IN  /\ transform_ok' = IF ll[1] # None
                                           THEN transform_ok + 1
                                           ELSE transform_ok
                        /\ geo_response' = IF r.called THEN resp.kind
                                           ELSE "uncalled"
                        /\ IF r.called
                           THEN /\ geocoder_calls' = geocoder_calls + 1
                                /\ calls' = [ calls EXCEPT
                                       !["geocoder"] = Called(@, now) ]
                                /\ now' = now + lag
                           ELSE UNCHANGED << geocoder_calls, calls, now >>
                        /\ IF r.raised
                           THEN Abort /\ UNCHANGED location
                           ELSE /\ location' = r.value
                                /\ pc' = "enrich_sleep"
                                /\ UNCHANGED result
    /\ UNCHANGED << op, min_e, max_e, min_n, max_n, displacements, total_tasks,
                    task_count, e, n, di, download_status, progress,
                    prev_progress, attempted, returned, steps, written,
                    dir_exists, transformer, input_file, output_file,
                    names_dir_exists, rows, idx, i >>

\* Line 188.
EnrichSleep ==
    /\ pc = "enrich_sleep"
    /\ sleep(GEO_DELAY)
    /\ pc' = "enrich_write"
    /\ UNCHANGED << op, min_e, max_e, min_n, max_n, displacements, total_tasks,
                    task_count, e, n, di, download_status, progress,
                    prev_progress, attempted, returned, steps, written,
                    dir_exists, calls, enrichVars >>

\* Lines 191-200, and the step of the for.
EnrichWrite ==
    /\ pc = "enrich_write"
    /\ LET row == rows[i + 1] IN
       IF ~HasCell(row, idx[1])
       THEN \* row[pid_idx] raises IndexError
            /\ Abort
            /\ UNCHANGED << output_file, progress, prev_progress, i >>
       ELSE /\ output_file' = File(Append(output_file.lines,
                   << Cell(row, idx[1]), Cell(row, idx[2]), Cell(row, idx[3]),
                      location >>))
            /\ Emit(<< i + 1, Len(rows) >>)
            /\ i' = i + 1
            /\ pc' = "enrich_row"
            /\ UNCHANGED result
    /\ UNCHANGED << op, min_e, max_e, min_n, max_n, displacements, total_tasks,
                    task_count, e, n, di, download_status, attempted, returned,
                    steps, written, dir_exists, now, calls, transformer,
                    input_file, names_dir_exists, rows, idx, location,
                    geo_response, geocoder_calls, transform_ok >>

----------------------------------------------------------------------------
(* Specification: one script run, started by one of the buttons *)

NextDownload ==
    \/ StartBatch
    \/ BatchLoop
    \/ BatchFetch
    \/ BatchSleep
    \/ StartSingle
    \/ SingleLoop
    \/ SingleFetch
    \/ SingleSleep

NextEnrich ==
    \/ StartEnrich
    \/ EnrichRow
    \/ EnrichSleep
    \/ EnrichWrite

Next == NextDownload \/ NextEnrich

Spec == Init /\ [][Next]_vars

\* The script is one sequential program: it always takes its next step.
FairSpec == Spec /\ WF_vars(Next)

----------------------------------------------------------------------------
(* Properties *)

GridWidthE == max_e - min_e + 1
GridWidthN == max_n - min_n + 1

\* The number of (e, n, displacement) combinations of the region.
GridSize ==
    (IF GridWidthE > 0 THEN GridWidthE ELSE 0)
    * (IF GridWidthN > 0 THEN GridWidthN ELSE 0)
    * Len(displacements)

\* The k-th combination in row-major order: e outermost, n inside it, the
\* displacement innermost.
RowMajorTask(k) ==
    << min_e + ((k - 1) \div (GridWidthN * Len(displacements))),
       min_n + (((k - 1) \div Len(displacements)) % GridWidthN),
       displacements[((k - 1) % Len(displacements)) + 1] >>

BatchDone == op = "batch" /\ pc = "done"

\* What C1 says of a finished batch download.
GridCovered ==
    /\ Len(attempted) = GridWidthE * GridWidthN * Len(displacements)
    /\ total_tasks = Len(attempted)
    /\ \A k \in 1..Len(attempted) : attempted[k] = RowMajorTask(k)
    /\ \A ee \in min_e..max_e, nn \in min_n..max_n,
          k \in 1..Len(displacements) :
          Cardinality({ j \in 1..Len(attempted) :
                          attempted[j] = << ee, nn, displacements[k] >> }) = 1

\* C1 as stated: for every region, a finished batch download has attempted
\* exactly (max_e-min_e+1) * (max_n-min_n+1) * |displacements| tasks, the
\* number announced as total_tasks, each combination once, in row-major
\* order.
C1_EveryRegion == BatchDone => GridCovered

\* C1, amended: the same for every region with min_e <= max_e and
\* min_n <= max_n; while the download runs, the tasks attempted so far are
\* the first ones in row-major order.
C1_GridEnumeration ==
    (op = "batch" /\ min_e <= max_e /\ min_n <= max_n) =>
        /\ \A k \in 1..Len(attempted) : attempted[k] = RowMajorTask(k)
        /\ total_tasks = GridWidthE * GridWidthN * Len(displacements)
        /\ pc = "done" => GridCovered

C1_Witness ==
    /\ BatchDone
    /\ GridWidthE >= 2 /\ GridWidthN >= 2 /\ Len(displacements) = 2
    /\ Len(attempted) = total_tasks

\* C4, the safety part: no exception ends the batch download, no task
\* beyond the grid is attempted, every fetch returns, and when the download
\* is done every task of the grid has been attempted.
NeverAborts ==
    op = "batch" =>
        /\ pc # "crashed"
        /\ Len(attempted) <= GridSize
        /\ pc \in { "batch_sleep", "batch_loop", "done" }
              => returned = Len(attempted)
        /\ pc = "done" => Len(attempted) = GridSize

\* C4: whatever the outcomes of the tasks, the batch download attempts every
\* task of the grid and ends after the last one.
C4_NeverAbortsEarly ==
    /\ []NeverAborts
    /\ (op = "batch") ~> (BatchDone /\ Len(attempted) = GridSize)

\* A task failed with a network error and the next task is being fetched.
C4_Witness ==
    /\ op = "batch" /\ pc = "batch_fetch"
    /\ task_count >= 2
    /\ download_status.kind = "Error"
    /\ << download_status.tile[1], download_status.tile[2],
          download_status.d >> = attempted[Len(attempted)]

ServiceDelay(s) == IF s = "archive" THEN DELAY ELSE GEO_DELAY

\* C5: successive calls to a service are at least its delay apart, and the
\* N calls made so far span at least (N-1) delays.
C5_MinimumInterval ==
    \A s \in Services :
        /\ calls[s].n >= 2 => calls[s].last - calls[s].prev >= ServiceDelay(s)
        /\ calls[s].n >= 1 =>
              calls[s].last - calls[s].first >= (calls[s].n - 1) * ServiceDelay(s)

C5_Witness ==
    /\ calls["archive"].n >= 3
    /\ calls["archive"].last - calls["archive"].prev = DELAY
    /\ calls["archive"].last - calls["archive"].first > 2 * DELAY

\* a <= b for fractions with positive denominators
FracLeq(a, b) == a[1] * b[2] <= b[1] * a[2]

\* C8: in the batch download every progress value lies in [0, 1] and is at
\* least the one before it, and it is 1 once the last task has returned and
\* when the download is done.
C8_ProgressMonotone ==
    op = "batch" =>
        /\ progress[2] > 0 /\ prev_progress[2] > 0
        /\ 0 <= progress[1] /\ progress[1] <= progress[2]
        /\ FracLeq(prev_progress, progress)
        /\ (returned >= 1 /\ returned = GridSize) => progress[1] = progress[2]
        /\ pc = "done" => progress[1] = progress[2]

\* A 2x2 region with both displacements is done, the last task having failed.
C8_Witness ==
    /\ BatchDone
    /\ GridWidthE = 2 /\ GridWidthN = 2 /\ Len(displacements) = 2
    /\ returned = 8
    /\ download_status.kind # "Extracted"

IsPrefix(s, t) == Len(s) <= Len(t) /\ \A k \in 1..Len(s) : s[k] = t[k]

InBatchTask == op = "batch" /\ pc \in { "batch_fetch", "batch_sleep" }

EnrichDone == op = "enrich" /\ pc = "done"

\* The file has a header with pid, easting and northing.
ValidHeader(file) ==
    /\ file.exists
    /\ Len(file.lines) >= 1
    /\ HasColumn(file.lines[1], "pid")
    /\ HasColumn(file.lines[1], "easting")
    /\ HasColumn(file.lines[1], "northing")

\* The cell of a data row under the column called name.
Field(file, row, name) == Cell(row, ColumnIndex(file.lines[1], name))

HasField(file, row, name) == HasCell(row, ColumnIndex(file.lines[1], name))

\* C2: for an input with a valid header the output is the header row and, in
\* order, one row per input data row with that row's pid, easting and
\* northing.
C2_OneRowPerInputRow ==
    (EnrichDone /\ ValidHeader(input_file)) =>
        /\ output_file.exists
        /\ Len(output_file.lines) = Len(input_file.lines)
        /\ output_file.lines[1] = OUT_HEADER
        /\ \A k \in 2..Len(input_file.lines) :
              LET row == input_file.lines[k]
                  out == output_file.lines[k]
              IN  /\ HasField(input_file, row, "pid")
                  /\ HasField(input_file, row, "easting")
                  /\ HasField(input_file, row, "northing")
                  /\ out[1] = Field(input_file, row, "pid")
                  /\ out[2] = Field(input_file, row, "easting")
                  /\ out[3] = Field(input_file, row, "northing")

\* C3: when the header lacks pid, easting or northing, the call leaves no
\* output file.
C3_NoOutputOnMissingColumns ==
    ( /\ EnrichDone
      /\ input_file.exists
      /\ Len(input_file.lines) >= 1
      /\ ~ValidHeader(input_file) )
    => output_file = NoFile

\* C6: a row with a non-numeric easting or northing has "Unknown location"
\* in its output row, a row whose geocoder call raised gets "Geocoding
\* error", and all rows after it are written.
C6_RowFailureIsolated ==
    /\ (op = "enrich" /\ pc \in { "enrich_sleep", "enrich_write" }
          /\ geo_response = "raise") => location = "Geocoding error"
    /\ (EnrichDone /\ ValidHeader(input_file)) =>
          \A k \in 2..Len(input_file.lines) :
              LET row == input_file.lines[k] IN
              ( /\ HasField(input_file, row, "easting")
                /\ HasField(input_file, row, "northing")
                /\ \/ ~IsNumeric(Field(input_file, row, "easting"))
                   \/ ~IsNumeric(Field(input_file, row, "northing")) )
              => /\ Len(output_file.lines) = Len(input_file.lines)
                 /\ output_file.lines[k][4] = "Unknown location"

\* C7: no location written to the output, and none returned by
\* get_location_name, is empty.
C7_LocationNeverEmpty ==
    /\ location # ""
    /\ \A k \in 2..Len(output_file.lines) : output_file.lines[k][4] # ""

\* The data rows among the first k whose easting and northing are numeric.
NumericRows(k) ==
    { j \in 1..k :
        /\ HasCell(rows[j], idx[2]) /\ HasCell(rows[j], idx[3])
        /\ IsNumeric(Cell(rows[j], idx[2]))
        /\ IsNumeric(Cell(rows[j], idx[3])) }

\* The rows the loop has begun.
RowsBegun ==
    IF pc \in { "enrich_sleep", "enrich_write" } THEN i + 1 ELSE i

\* C10: without coordinates get_location_name calls no geocoder and returns
\* "Unknown location"; the geocoder calls of a run are as many as the rows
\* whose transform succeeded, none when there is no transformer.
C10_NoCallWithoutCoordinates ==
    op = "enrich" =>
        /\ geocoder_calls = transform_ok
        /\ calls["geocoder"].n = geocoder_calls
        /\ geocoder_calls <= Cardinality(NumericRows(RowsBegun))
        /\ transformer = None => geocoder_calls = 0
        /\ geo_response = "uncalled" => location = "Unknown location"

\* A run of two rows is done: one row's transform succeeded, the other's
\* failed.
C10_Witness ==
    /\ EnrichDone
    /\ result # None
    /\ Len(rows) = 2
    /\ geocoder_calls = 1

----------------------------------------------------------------------------
(* download_tile's files *)

\* A download_tile call has been made in this run.
Fetched == Len(attempted) > 0

\* The tile of the latest download_tile call.
LastTile == attempted[Len(attempted)]

\* Every task made one request and had one outcome.
OneRequestPerTask ==
    /\ calls["archive"].n = Len(attempted)
    /\ returned = Len(attempted)
    /\ Fetched =>
          /\ download_status.kind \in { "Extracted", "Failed", "NoMatch", "Error" }
          /\ download_status.tile = << LastTile[1], LastTile[2] >>
          /\ download_status.d = LastTile[3]

\* A call that succeeded wrote one file under the download directory, an
\* entry that ends in .csv and has the tile's fragment in its name.
SuccessWritesOneFile ==
    (Fetched /\ download_status.kind = "Extracted") =>
        /\ dir_exists
        /\ written = { download_status.name }
        /\ Matches(download_status.name, LastTile[1], LastTile[2], LastTile[3])

\* A call that failed wrote no file.
FailureWritesNothing ==
    download_status.kind # "Extracted" => written = {}

\* The entry a successful call extracts is the first matching one of the
\* archive, whatever the service answers.
FirstMatchExtracted ==
    \A t \in Tiles : \A resp \in Responses(t[1], t[2], t[3]) :
        LET r == download_tile(t[1], t[2], t[3], resp) IN
        r.ret =>
            \E k \in 1..Len(resp.names) :
                /\ r.written = { resp.names[k] }
                /\ Matches(resp.names[k], t[1], t[2], t[3])
                /\ \A j \in 1..(k - 1) :
                      ~Matches(resp.names[j], t[1], t[2], t[3])

\* C11: download_tile writes exactly one file under the download directory
\* when it succeeds, the first archive entry that ends in .csv and has the
\* tile's fragment in its name, and writes no file on any failure path; each
\* task has exactly one outcome and makes exactly one request.
C11_OneFileOrNone ==
    /\ OneRequestPerTask
    /\ SuccessWritesOneFile
    /\ FailureWritesNothing
    /\ FirstMatchExtracted

====
